---------------------------- MODULE Spec2Model ----------------------------
(***************************************************************************)
(* A model of seekr (src/seekr.py): the text normalizer, the artist        *)
(* tokenizer, the Rekordbox (database) scanner, the filesystem scanner and *)
(* the per-item classification done by main.                               *)
(*                                                                         *)
(* Strings are sequences of one-character strings, so that str.replace,    *)
(* re.sub, re.split, str.strip and Path.stem are computed character by     *)
(* character as Python computes them.  Inputs are single-line strings      *)
(* (no "\n"), so the regular expressions' "." matches every character.     *)
(***************************************************************************)
EXTENDS Integers, Sequences, FiniteSets, TLC

\* ------------------------------------------------------------------ bounds
\* Number of fragments an input of norm is assembled from.
MaxFrags == 4
\* Number of records in the database corpus.
MaxRecs == 3
\* Number of directory entries under the filesystem root.
MaxEntries == 2
\* Number of rows in the input JSON file.
MaxItems == 2

\* ------------------------------------------------------- characters, strings
UpperChars == <<"A","B","C","D","E","F","G","H","I","J","K","L","M",
                "N","O","P","Q","R","S","T","U","V","W","X","Y","Z">>
LowerChars == <<"a","b","c","d","e","f","g","h","i","j","k","l","m",
                "n","o","p","q","r","s","t","u","v","w","x","y","z">>
DigitChars == {"0","1","2","3","4","5","6","7","8","9"}

Range(f) == {f[i] : i \in DOMAIN f}

IndexIn(c, chars) == CHOOSE i \in DOMAIN chars : chars[i] = c

\* str.lower() on one character
LowerChar(c) == IF c \in Range(UpperChars) THEN LowerChars[IndexIn(c, UpperChars)] ELSE c

\* str.upper() on one character
UpperChar(c) == IF c \in Range(LowerChars) THEN UpperChars[IndexIn(c, LowerChars)] ELSE c

IsLetter(c) == c \in Range(UpperChars) \cup Range(LowerChars)

\* the regular expressions' \w and \s
IsWord(c) == IsLetter(c) \/ c \in DigitChars \/ c = "_"
IsSpace(c) == c \in {" ", "\t"}

\* str.lower(), str.upper(), str.title()
str_lower(s) == [i \in DOMAIN s |-> LowerChar(s[i])]
str_upper(s) == [i \in DOMAIN s |-> UpperChar(s[i])]
str_title(s) == [i \in DOMAIN s |->
                   IF IsLetter(s[i])
                   THEN IF i > 1 /\ IsLetter(s[i-1]) THEN LowerChar(s[i]) ELSE UpperChar(s[i])
                   ELSE s[i]]

Drop(s, n) == SubSeq(s, n + 1, Len(s))
Take(s, n) == SubSeq(s, 1, n)

StartsWith(s, p) == Len(s) >= Len(p) /\ Take(s, Len(p)) = p
\* a case-insensitive literal of a pattern compiled with re.IGNORECASE
StartsWithI(s, p) == Len(s) >= Len(p) /\ str_lower(Take(s, Len(p))) = str_lower(p)

\* str.replace(pat, ''): every non-overlapping occurrence, left to right
RECURSIVE replace(_, _)
replace(t, pat) ==
  IF Len(t) < Len(pat) THEN t
  ELSE IF StartsWith(t, pat) THEN replace(Drop(t, Len(pat)), pat)
  ELSE <<Head(t)>> \o replace(Tail(t), pat)

RECURSIVE lstrip(_)
lstrip(s) == IF s # <<>> /\ IsSpace(Head(s)) THEN lstrip(Tail(s)) ELSE s

RECURSIVE rstrip(_)
rstrip(s) == IF s # <<>> /\ IsSpace(s[Len(s)]) THEN rstrip(Take(s, Len(s) - 1)) ELSE s

\* str.strip()
strip(s) == rstrip(lstrip(s))

\* ------------------------------------------------------------- the patterns
ORIGINAL_MIX_PATTERNS ==
  << <<"(","o","r","i","g","i","n","a","l"," ","m","i","x",")">>,
     <<"o","r","i","g","i","n","a","l"," ","m","i","x">>,
     <<"(","o","r","i","g"," ","m","i","x",")">>,
     <<"o","r","i","g"," ","m","i","x">> >>

\* The six FEAT_PATTERNS, as (shape, keyword): shape "paren" is \(KW\.?.*?\),
\* "comma" is ,\s*KW\.?.*$ and "space" is \s+KW\.?.*$ .
FEAT_PATTERNS ==
  << [shape |-> "paren", kw |-> <<"f","t">>],
     [shape |-> "paren", kw |-> <<"f","e","a","t">>],
     [shape |-> "comma", kw |-> <<"f","t">>],
     [shape |-> "comma", kw |-> <<"f","e","a","t">>],
     [shape |-> "space", kw |-> <<"f","t">>],
     [shape |-> "space", kw |-> <<"f","e","a","t">>] >>

\* strip_mix_annotations: for each pattern, in order, replace the literal,
\* its title-cased and its upper-cased form by ''; then strip.
RECURSIVE StripMixFrom(_, _)
StripMixFrom(t, k) ==
  IF k > Len(ORIGINAL_MIX_PATTERNS) THEN t
  ELSE LET pat == ORIGINAL_MIX_PATTERNS[k]
       IN  StripMixFrom(replace(replace(replace(t, pat), str_title(pat)), str_upper(pat)), k + 1)

strip_mix_annotations(s) == strip(StripMixFrom(s, 1))

\* Length of the match of \(KW\.?.*?\) at the start of s, 0 when none: "(",
\* the keyword, then lazily up to the first ")" (an optional "." is not a ")").
RECURSIVE FirstClose(_, _)
FirstClose(s, i) ==
  IF i > Len(s) THEN 0 ELSE IF s[i] = ")" THEN i ELSE FirstClose(s, i + 1)

ParenMatchLen(s, kw) ==
  IF s # <<>> /\ Head(s) = "(" /\ StartsWithI(Tail(s), kw)
  THEN FirstClose(s, Len(kw) + 2)
  ELSE 0

\* re.sub of a "paren" pattern: every non-overlapping match, left to right
RECURSIVE SubParen(_, _)
SubParen(s, kw) ==
  IF s = <<>> THEN s
  ELSE LET n == ParenMatchLen(s, kw)
       IN  IF n > 0 THEN SubParen(Drop(s, n), kw)
           ELSE <<Head(s)>> \o SubParen(Tail(s), kw)

\* whether ,\s*KW or \s+KW (then \.?.*$, which always matches) matches at the
\* start of s
CommaMatch(s, kw) == s # <<>> /\ Head(s) = "," /\ StartsWithI(lstrip(Tail(s)), kw)
SpaceMatch(s, kw) == s # <<>> /\ IsSpace(Head(s)) /\ StartsWithI(lstrip(s), kw)

\* re.sub of a "comma" or "space" pattern: the leftmost match runs to the end
\* of the string, so the result is the text before it
RECURSIVE SubTail(_, _, _)
SubTail(s, shape, kw) ==
  IF s = <<>> THEN s
  ELSE IF (IF shape = "comma" THEN CommaMatch(s, kw) ELSE SpaceMatch(s, kw)) THEN <<>>
  ELSE <<Head(s)>> \o SubTail(Tail(s), shape, kw)

SubFeat(s, pat) ==
  IF pat.shape = "paren" THEN SubParen(s, pat.kw) ELSE SubTail(s, pat.shape, pat.kw)

RECURSIVE StripFeatFrom(_, _)
StripFeatFrom(t, k) ==
  IF k > Len(FEAT_PATTERNS) THEN t
  ELSE StripFeatFrom(SubFeat(t, FEAT_PATTERNS[k]), k + 1)

\* strip_features: each pattern once, in order; then strip.
strip_features(s) == strip(StripFeatFrom(s, 1))

\* norm: lowercase, strip mixes and features, trim.
norm(s) == strip(strip_features(strip_mix_annotations(str_lower(s))))

\* ------------------------------------------------------------ split_artists
KwAnd == <<"a","n","d">>

\* Length of the match of [,&/;]|\band\b at position i of s, 0 when none.
SepLenAt(s, i) ==
  IF s[i] \in {",", "&", "/", ";"} THEN 1
  ELSE IF /\ StartsWithI(Drop(s, i - 1), KwAnd)
          /\ (i = 1 \/ ~IsWord(s[i-1]))
          /\ (i + 3 > Len(s) \/ ~IsWord(s[i+3]))
       THEN 3
       ELSE 0

\* re.split: the pieces between the separators' matches, scanned left to right
\* (cur is the piece being read, acc the pieces already closed).
RECURSIVE SplitFrom(_, _, _, _)
SplitFrom(s, i, cur, acc) ==
  IF i > Len(s) THEN Append(acc, cur)
  ELSE LET n == SepLenAt(s, i)
       IN  IF n > 0 THEN SplitFrom(s, i + n, <<>>, Append(acc, cur))
           ELSE SplitFrom(s, i + 1, Append(cur, s[i]), acc)

re_split(s) == SplitFrom(s, 1, <<>>, <<>>)

NonEmpty(p) == p # <<>>

\* split_artists: [p.strip() for p in parts if p.strip()]
split_artists(s) ==
  LET parts == re_split(s)
  IN  SelectSeq([k \in DOMAIN parts |-> strip(parts[k])], NonEmpty)

\* ------------------------------------------------- the similarity scorer
\* str.split(): the whitespace-delimited words of s, as a set
RECURSIVE WordsFrom(_, _, _)
WordsFrom(s, cur, acc) ==
  IF s = <<>> THEN (IF cur = <<>> THEN acc ELSE acc \cup {cur})
  ELSE IF IsSpace(Head(s))
       THEN WordsFrom(Tail(s), <<>>, IF cur = <<>> THEN acc ELSE acc \cup {cur})
       ELSE WordsFrom(Tail(s), Append(cur, Head(s)), acc)

Words(s) == WordsFrom(s, <<>>, {})

\* fuzz.token_set_ratio, the external scorer, by its contract: an integer in
\* 0..100, symmetric, 100 when one word set is included in the other, and
\* otherwise the share of common words (Dice's coefficient of the word sets).
token_set_ratio(a, b) ==
  LET A == Words(a)
      B == Words(b)
      I == A \cap B
  IN  IF A = {} \/ B = {} THEN (IF A = B THEN 100 ELSE 0)
      ELSE IF I # {} /\ (A \subseteq B \/ B \subseteq A) THEN 100
      ELSE (200 * Cardinality(I)) \div (Cardinality(A) + Cardinality(B))

Max(a, b) == IF a >= b THEN a ELSE b
Min(a, b) == IF a <= b THEN a ELSE b

\* best = max(best, x) over the scores xs, in loop order
RECURSIVE FoldMax(_, _)
FoldMax(xs, best) == IF xs = <<>> THEN best ELSE FoldMax(Tail(xs), Max(best, Head(xs)))

\* the sequence of x \o y for x in xs (outer loop), y in ys (inner loop)
RECURSIVE Flatten(_)
Flatten(ss) == IF ss = <<>> THEN <<>> ELSE Head(ss) \o Flatten(Tail(ss))

Pairs(xs, ys) ==
  Flatten([i \in DOMAIN xs |-> [j \in DOMAIN ys |-> <<xs[i], ys[j]>>]])

\* sorted(results, key=lambda x: x['score'], reverse=True): Python's sort is
\* stable, and with reverse=True equal keys keep their original order.
\* InsertDesc with a hit put before the hits of its score: an unstable sort
RECURSIVE InsertDesc_TiesFirst(_, _)
InsertDesc_TiesFirst(sorted, h) ==
  IF sorted = <<>> THEN <<h>>
  ELSE IF Head(sorted).score > h.score
       THEN <<Head(sorted)>> \o InsertDesc_TiesFirst(Tail(sorted), h)
       ELSE <<h>> \o sorted

RECURSIVE InsertDesc(_, _)
InsertDesc(sorted, h) ==
  IF sorted = <<>> THEN <<h>>
  ELSE IF Head(sorted).score >= h.score
       THEN <<Head(sorted)>> \o InsertDesc(Tail(sorted), h)
       ELSE <<h>> \o sorted

RECURSIVE SortFrom(_, _)
SortFrom(results, sorted) ==
  IF results = <<>> THEN sorted
  ELSE SortFrom(Tail(results), InsertDesc(sorted, Head(results)))

sorted_by_score(results) == SortFrom(results, <<>>)

\* ---------------------------------------------------------- scan_rekordbox
\* A record's Artist is NoArtist (None) or an object with a Name.
NoArtist == [none |-> TRUE]

Sep == <<":", ":">>
Dash == <<" ", "-", " ">>

\* input_artists = split_artists(artist) if artist else ['']
InputArtists(artist) == IF artist # <<>> THEN split_artists(artist) ELSE << <<>> >>

\* db_artists = split_artists(a_val) or ['']
DbArtists(a_val) ==
  IF split_artists(a_val) # <<>> THEN split_artists(a_val) ELSE << <<>> >>

RawTitle(c) == c.Title
RawArtist(c) == IF c.Artist = NoArtist THEN <<>> ELSE c.Artist.Name

\* best_score of one record (lines 108-124)
RbBestScore(c, title, artist) ==
  LET t_val == norm(RawTitle(c))
      a_val == norm(RawArtist(c))
      ps    == Pairs(InputArtists(artist), DbArtists(a_val))
  IN  IF title # <<>> /\ artist # <<>>
      THEN FoldMax([k \in DOMAIN ps |->
                      token_set_ratio(title \o Sep \o ps[k][1],
                                      t_val \o Sep \o ps[k][2])], 0)
      ELSE IF title # <<>> THEN token_set_ratio(title, t_val)
      ELSE IF artist # <<>>
      THEN FoldMax([k \in DOMAIN ps |-> token_set_ratio(ps[k][1], ps[k][2])], 0)
      ELSE 0

\* RbKeep with the threshold itself excluded
RbKeep_Strict(best_score, score_cut) == best_score > score_cut

\* whether the record is appended to results (line 126)
RbKeep(best_score, score_cut) == best_score >= score_cut

RbHit(c, best_score) ==
  [score |-> best_score, item |-> RawArtist(c) \o Dash \o RawTitle(c)]

\* the loop over contents (lines 104-130)
RECURSIVE RbLoop(_, _, _, _, _)
RbLoop(contents, title, artist, score_cut, results) ==
  IF contents = <<>> THEN results
  ELSE LET c == Head(contents)
           best_score == RbBestScore(c, title, artist)
       IN  RbLoop(Tail(contents), title, artist, score_cut,
                  IF RbKeep(best_score, score_cut)
                  THEN Append(results, RbHit(c, best_score))
                  ELSE results)

scan_rekordbox(contents, title, artist, score_cut) ==
  sorted_by_score(RbLoop(contents, title, artist, score_cut, <<>>))

\* -------------------------------------------------------------- scan_files
\* The directory tree under a path: kind is "dir", "file" (the path names a
\* regular file) or "missing"; entries are the tree's entries in traversal
\* order.  An entry has its name, the names of its ancestor directories below
\* the root (dirs), whether it is a directory, and the path it is a symbolic
\* link to (link, <<>> for an entry that is no link).
HasDot(name) == \E i \in DOMAIN name : name[i] = "."

MatchesGlob(f) == HasDot(f.name)

\* basepath.rglob('*.*'): nothing unless basepath is a directory; otherwise the
\* entries, of any kind and at any depth, whose name holds a ".".
rglob(basepath) ==
  IF basepath.kind = "dir" THEN SelectSeq(basepath.entries, MatchesGlob) ELSE <<>>

LastDot(name) ==
  IF HasDot(name) THEN CHOOSE i \in DOMAIN name :
                          name[i] = "." /\ \A j \in DOMAIN name : j > i => name[j] # "."
  ELSE 0

\* f.stem: the name up to its last ".", unless that "." starts or ends the name
stem(f) ==
  LET i == LastDot(f.name)
  IN  IF 1 < i /\ i < Len(f.name) THEN Take(f.name, i - 1) ELSE f.name

\* f.relative_to(basepath).parts[:-1]
rel_dirs(f) == f.dirs

RECURSIVE JoinPath(_)
JoinPath(parts) ==
  IF parts = <<>> THEN <<>> ELSE <<"/">> \o Head(parts) \o JoinPath(Tail(parts))

\* str(f.resolve()): the path with symbolic links followed
resolve(f) == JoinPath(IF f.link = <<>> THEN Append(f.dirs, f.name) ELSE f.link)

\* a_scores (lines 153-157 and 172-176): for d in rel_dirs, for db_a in
\* split_artists(norm(d)), for in_a in input_artists
FsArtistScores(f, artist) ==
  LET ds == rel_dirs(f)
      ps == Flatten([k \in DOMAIN ds |->
                       Pairs(split_artists(norm(ds[k])), InputArtists(artist))])
  IN  [k \in DOMAIN ps |-> token_set_ratio(ps[k][2], ps[k][1])]

\* a_score = max(a_scores) if a_scores else 0
FsArtistScore(f, artist) ==
  LET a_scores == FsArtistScores(f, artist)
  IN  IF a_scores # <<>> THEN FoldMax(Tail(a_scores), Head(a_scores)) ELSE 0

FsTitleScore(f, title) == token_set_ratio(title, norm(stem(f)))

\* FsOkBoth with one sub-score reaching the threshold being enough
FsOkBoth_Either(t_score, a_score, score_cut) ==
  t_score >= score_cut \/ a_score >= score_cut

\* the title+artist branch (lines 159-161)
FsOkBoth(t_score, a_score, score_cut) == t_score >= score_cut /\ a_score >= score_cut
FsScoreBoth(t_score, a_score) == Min(t_score, a_score)

\* (ok, best_score) of one entry (lines 147-180)
FsJudge(f, title, artist, score_cut) ==
  LET t_score == FsTitleScore(f, title)
      a_score == FsArtistScore(f, artist)
  IN  IF title # <<>> /\ artist # <<>>
      THEN IF FsOkBoth(t_score, a_score, score_cut)
           THEN [ok |-> TRUE, best_score |-> FsScoreBoth(t_score, a_score)]
           ELSE [ok |-> FALSE, best_score |-> 0]
      ELSE IF title # <<>>
      THEN IF t_score >= score_cut
           THEN [ok |-> TRUE, best_score |-> t_score]
           ELSE [ok |-> FALSE, best_score |-> 0]
      ELSE IF artist # <<>>
      THEN IF a_score >= score_cut
           THEN [ok |-> TRUE, best_score |-> a_score]
           ELSE [ok |-> FALSE, best_score |-> 0]
      ELSE [ok |-> FALSE, best_score |-> 0]

\* FsFresh without the look-up in seen
FsFresh_Always(path, seen) == TRUE

\* whether a judged-ok entry is appended (line 184)
FsFresh(path, seen) == path \notin seen

\* the loop over the entries (lines 142-190)
RECURSIVE FsLoop(_, _, _, _, _, _)
FsLoop(fs, title, artist, score_cut, seen, results) ==
  IF fs = <<>> THEN results
  ELSE LET f == Head(fs)
           j == FsJudge(f, title, artist, score_cut)
           path == resolve(f)
           add == j.ok /\ FsFresh(path, seen)
       IN  FsLoop(Tail(fs), title, artist, score_cut,
                  IF add THEN seen \cup {path} ELSE seen,
                  IF add
                  THEN Append(results, [score |-> j.best_score, item |-> f.name,
                                        path |-> path])
                  ELSE results)

scan_files(basepath, title, artist, score_cut) ==
  sorted_by_score(FsLoop(rglob(basepath), title, artist, score_cut, {}, <<>>))

\* ------------------------------------------------------------------- inputs
SeqsUpTo(S, n) == UNION {[1..k -> S] : k \in 0..n}
Distinct(q) == \A i, j \in DOMAIN q : i # j => q[i] # q[j]

\* Query strings handed to the scanners.
Titles == { <<>>, <<"a">>, <<"a"," ","b">> }
Artists == { <<>>, <<"x">>, <<"x"," ","&"," ","y">>, <<"&">> }
ScoreCuts == {0, 50, 80, 100}

\* Database records, with distinct artist-title pairs.
RecPool ==
  { [Title |-> <<"A">>, Artist |-> [Name |-> <<"X">>]],
    [Title |-> <<"a"," ","c">>, Artist |-> [Name |-> <<"Y",","," ","X">>]],
    [Title |-> <<"b"," ","(","f","t","."," ","z",")">>, Artist |-> NoArtist],
    [Title |-> <<"A"," ","b">>, Artist |-> [Name |-> <<"x">>]] }

RecCorpora == {q \in SeqsUpTo(RecPool, MaxRecs) : Distinct(q)}

\* Directory entries: two regular files, a file without extension, a
\* directory whose name holds a ".", a symbolic link to the first file, and a
\* file directly under the root.
EntryPool ==
  { [name |-> <<"a",".","m">>, dirs |-> << <<"x">> >>, isdir |-> FALSE, link |-> <<>>],
    [name |-> <<"a"," ","c",".","m">>, dirs |-> << <<"y">> >>, isdir |-> FALSE,
     link |-> <<>>],
    [name |-> <<"a">>, dirs |-> << <<"x">> >>, isdir |-> FALSE, link |-> <<>>],
    [name |-> <<"a",".","d">>, dirs |-> << <<"x">> >>, isdir |-> TRUE, link |-> <<>>],
    [name |-> <<"a"," ","b",".","m">>, dirs |-> << <<"y">>, <<"z">> >>, isdir |-> FALSE,
     link |-> << <<"x">>, <<"a",".","m">> >>],
    [name |-> <<"b",".","m">>, dirs |-> <<>>, isdir |-> FALSE, link |-> <<>>] }

Trees == {q \in SeqsUpTo(EntryPool, MaxEntries) : Distinct(q)}

BasePaths == {[kind |-> "dir", entries |-> q] : q \in Trees}
             \cup {[kind |-> "missing", entries |-> <<>>],
                   [kind |-> "file", entries |-> <<>>]}

\* ----------------------------------------------------------------- state
VARIABLES
  call, ret, cpc,                \* a direct call of a scanner: arguments, result
  inp, out1, out2, npc,          \* norm applied to a string, and to its result
  recs, dir, score, raw,         \* main: the database, args.dir, args.score, the JSON rows
  items, results, summary, pc    \* main: the kept rows, the results, the counts

vars == <<call, ret, cpc, inp, out1, out2, npc,
          recs, dir, score, raw, items, results, summary, pc>>

scanVars == <<call, ret, cpc>>
normVars == <<inp, out1, out2, npc>>
mainVars == <<recs, dir, score, raw, items, results, summary, pc>>

NoCall == [fn |-> "none"]
ScanIdle == call = NoCall /\ ret = <<>> /\ cpc = "idle"
NormIdle == inp = <<>> /\ out1 = <<>> /\ out2 = <<>> /\ npc = "idle"
MainIdle == /\ recs = <<>> /\ dir = [kind |-> "none"] /\ score = 0 /\ raw = <<>>
            /\ items = <<>> /\ results = <<>> /\ summary = <<>> /\ pc = "idle"

\* ------------------------------------------------- the scanners, called directly
ScanInit ==
  /\ \E title \in Titles, artist \in Artists, score_cut \in ScoreCuts :
       \/ \E contents \in RecCorpora :
            call = [fn |-> "scan_rekordbox", contents |-> contents, title |-> title,
                    artist |-> artist, score_cut |-> score_cut]
       \/ \E basepath \in BasePaths :
            call = [fn |-> "scan_files", basepath |-> basepath, title |-> title,
                    artist |-> artist, score_cut |-> score_cut]
  /\ ret = <<>>
  /\ cpc = "call"
  /\ NormIdle
  /\ MainIdle

CallScanRekordbox ==
  /\ cpc = "call"
  /\ call.fn = "scan_rekordbox"
  /\ ret' = scan_rekordbox(call.contents, call.title, call.artist, call.score_cut)
  /\ cpc' = "done"
  /\ UNCHANGED <<call, normVars, mainVars>>

CallScanFiles ==
  /\ cpc = "call"
  /\ call.fn = "scan_files"
  /\ ret' = scan_files(call.basepath, call.title, call.artist, call.score_cut)
  /\ cpc' = "done"
  /\ UNCHANGED <<call, normVars, mainVars>>

ScanNext == CallScanRekordbox \/ CallScanFiles

SpecScan == ScanInit /\ [][ScanNext]_vars

\* ------------------------------------------------------------ norm, applied
Frags == { <<"o","r","i","g">>, <<" ","m","i","x">>, <<"(">>, <<")">>,
           <<"f","t">>, <<"f","e","a","t">>, <<" ">>, <<"A">>, <<",">> }

NormInit ==
  /\ \E fs \in SeqsUpTo(Frags, MaxFrags) : inp = Flatten(fs)
  /\ out1 = <<>>
  /\ out2 = <<>>
  /\ npc = "call"
  /\ ScanIdle
  /\ MainIdle

Normalize ==
  /\ npc = "call"
  /\ out1' = norm(inp)
  /\ npc' = "once"
  /\ UNCHANGED <<inp, out2, scanVars, mainVars>>

NormalizeAgain ==
  /\ npc = "once"
  /\ out2' = norm(out1)
  /\ npc' = "twice"
  /\ UNCHANGED <<inp, out1, scanVars, mainVars>>

NormNext == Normalize \/ NormalizeAgain

SpecNorm == NormInit /\ [][NormNext]_vars

\* --------------------------------------------------------------------- main
\* Rows of the input JSON file (an absent or null field reads as '').
RowPool ==
  { [title |-> <<"A">>, artist |-> <<"X">>],
    [title |-> <<" ">>, artist |-> <<"&">>],
    [title |-> <<"b"," ","(","f","t","."," ","z",")">>, artist |-> <<>>],
    [title |-> <<"o","r","i","g"," ","m","i","x">>, artist |-> <<" ">>] }

MainDbs ==
  {[ok |-> FALSE, contents |-> <<>>], [ok |-> TRUE, contents |-> <<>>]}
  \cup {[ok |-> TRUE, contents |-> <<r>>] :
          r \in {c \in RecPool : c.Artist = NoArtist \/ c.Title = <<"A">>}}

MainDirs ==
  {[kind |-> "none"]}
  \cup {b \in BasePaths : Len(b.entries) = 0}
  \cup {[kind |-> "dir", entries |-> <<e>>] :
          e \in {f \in EntryPool : f.name \in {<<"a",".","m">>, <<"b",".","m">>}
                                   /\ f.link = <<>>}}

Init ==
  /\ recs \in MainDbs
  /\ dir \in MainDirs
  /\ score \in {0, 80}
  /\ raw \in SeqsUpTo(RowPool, MaxItems)
  /\ items = <<>>
  /\ results = <<>>
  /\ summary = <<>>
  /\ pc = "load"
  /\ ScanIdle
  /\ NormIdle

\* one row of the input (lines 215-222): <<>> when the row is skipped
LoadRow(row) ==
  LET t == norm(strip(row.title))
      a == norm(strip(row.artist))
  IN  IF ~(t # <<>> \/ a # <<>>) THEN <<>> ELSE <<[title |-> t, artist |-> a]>>

\* load & normalize input, skip blank rows (lines 213-222)
LoadInput ==
  /\ pc = "load"
  /\ items' = Flatten([k \in DOMAIN raw |-> LoadRow(raw[k])])
  /\ pc' = "db"
  /\ UNCHANGED <<recs, dir, score, raw, results, summary, scanVars, normVars>>

\* load rekordbox DB (lines 236-249): an error ends the run
LoadRekordbox ==
  /\ pc = "db"
  /\ pc' = IF recs.ok THEN "process" ELSE "exit"
  /\ UNCHANGED <<recs, dir, score, raw, items, results, summary, scanVars, normVars>>

\* fs_hits = scan_files(Path(args.dir), ...) if args.dir else []
FsHitsOf(row) ==
  IF dir.kind # "none" THEN scan_files(dir, row.title, row.artist, score) ELSE <<>>

\* results.append({...}) (lines 256-263)
ItemResult(row, rb_hits, fs_hits) ==
  [artist |-> row.artist, title |-> row.title,
   rb_count |-> Len(rb_hits), fs_count |-> Len(fs_hits),
   rb_items |-> rb_hits, fs_items |-> fs_hits]

\* the body of the loop over items (lines 254-263)
ProcessRow(row) ==
  ItemResult(row, scan_rekordbox(recs.contents, row.title, row.artist, score),
             FsHitsOf(row))

\* one turn of the loop over items (lines 253-263)
ProcessItem ==
  /\ pc = "process"
  /\ Len(results) < Len(items)
  /\ results' = Append(results, ProcessRow(items[Len(results) + 1]))
  /\ UNCHANGED <<recs, dir, score, raw, items, summary, pc, scanVars, normVars>>

\* CountsAsFs without the priority of the database
CountsAsFs_NoPriority(r) == r.fs_count > 0

\* the three predicates of the summary counts (lines 266-268)
CountsAsRb(r) == r.rb_count > 0
CountsAsFs(r) == r.rb_count = 0 /\ r.fs_count > 0
CountsAsNone(r) == r.rb_count = 0 /\ r.fs_count = 0

RECURSIVE SumSeq(_)
SumSeq(xs) == IF xs = <<>> THEN 0 ELSE Head(xs) + SumSeq(Tail(xs))

B2N(b) == IF b THEN 1 ELSE 0

\* summary counts (lines 266-268)
Summarize ==
  /\ pc = "process"
  /\ Len(results) = Len(items)
  /\ summary' = [rb_ct   |-> SumSeq([k \in DOMAIN results |-> B2N(CountsAsRb(results[k]))]),
                 fs_ct   |-> SumSeq([k \in DOMAIN results |-> B2N(CountsAsFs(results[k]))]),
                 none_ct |-> SumSeq([k \in DOMAIN results |-> B2N(CountsAsNone(results[k]))])]
  /\ pc' = "done"
  /\ UNCHANGED <<recs, dir, score, raw, items, results, scanVars, normVars>>

\* the colour of a row of the detailed summary (lines 300-304)
Col(r) == IF r.rb_count > 0 THEN "GREEN" ELSE IF r.fs_count > 0 THEN "YELLOW" ELSE "RED"

Next == LoadInput \/ LoadRekordbox \/ ProcessItem \/ Summarize

Spec == Init /\ [][Next]_vars

\* ================================================================== claims
SetMax(S) == IF S = {} THEN 0 ELSE CHOOSE m \in S : \A x \in S : x <= m

ScanDone(fn) == cpc = "done" /\ call.fn = fn

\* ---------------------------------------------------------------------- C1
BucketOf(r) ==
  IF r.rb_items # <<>> THEN "matched-in-database"
  ELSE IF r.fs_items # <<>> THEN "matched-on-filesystem"
  ELSE "unmatched"

InBucket(b) == {k \in DOMAIN results : BucketOf(results[k]) = b}

\* C1: every processed query is counted in exactly one of the three buckets,
\* the one its hit lists give by priority (database hits first, then filesystem
\* hits, else unmatched), and the three summary counts add up to the number of
\* processed queries.
C1_BucketsPartitionQueries ==
  pc = "done" =>
    /\ Len(results) = Len(items)
    /\ summary.rb_ct + summary.fs_ct + summary.none_ct = Len(items)
    /\ summary.rb_ct = Cardinality(InBucket("matched-in-database"))
    /\ summary.fs_ct = Cardinality(InBucket("matched-on-filesystem"))
    /\ summary.none_ct = Cardinality(InBucket("unmatched"))
    /\ \A k \in DOMAIN results :
         LET r == results[k]
         IN  /\ B2N(CountsAsRb(r)) + B2N(CountsAsFs(r)) + B2N(CountsAsNone(r)) = 1
             /\ CountsAsRb(r) <=> BucketOf(r) = "matched-in-database"
             /\ CountsAsFs(r) <=> BucketOf(r) = "matched-on-filesystem"
             /\ CountsAsNone(r) <=> BucketOf(r) = "unmatched"
             /\ Col(r) = "GREEN" <=> BucketOf(r) = "matched-in-database"
             /\ Col(r) = "YELLOW" <=> BucketOf(r) = "matched-on-filesystem"

\* a finished run with a query that has hits in the database and on the
\* filesystem
C1_Witness ==
  /\ pc = "done"
  /\ \E k \in DOMAIN results :
       results[k].rb_items # <<>> /\ results[k].fs_items # <<>>

\* ---------------------------------------------------------------------- C2
\* the artist score of the claim: the maximum over every pair of a token of an
\* ancestor directory's normalized name and a token of the query's artist
C2_ArtistScore(f, artist) ==
  SetMax({token_set_ratio(qa, dt) :
            <<qa, dt>> \in UNION {Range(split_artists(artist))
                                  \X Range(split_artists(norm(f.dirs[k]))) :
                                  k \in DOMAIN f.dirs}})

C2_TitleScore(f, title) == token_set_ratio(title, norm(stem(f)))

C2_Qualifies(f) ==
  /\ C2_TitleScore(f, call.title) >= call.score_cut
  /\ C2_ArtistScore(f, call.artist) >= call.score_cut

\* C2: with title and artist both non-empty, a file the scan evaluates is
\* returned iff its title score and its artist score both reach the threshold
\* (through whichever entry reaches it first), the hit's score is the smaller
\* of the two, and an entry with title score 100 and an artist score under the
\* threshold produces no hit.
C2_FilesNeedBothScores ==
  (ScanDone("scan_files") /\ call.title # <<>> /\ call.artist # <<>>) =>
    LET cand == rglob(call.basepath)
    IN  /\ \A k \in DOMAIN cand :
             (\E i \in DOMAIN ret : ret[i].path = resolve(cand[k]))
               <=> (\E j \in DOMAIN cand : /\ resolve(cand[j]) = resolve(cand[k])
                                           /\ C2_Qualifies(cand[j]))
        /\ \A i \in DOMAIN ret :
             \E k \in DOMAIN cand :
               /\ ret[i].item = cand[k].name
               /\ ret[i].path = resolve(cand[k])
               /\ C2_Qualifies(cand[k])
               /\ ret[i].score = Min(C2_TitleScore(cand[k], call.title),
                                     C2_ArtistScore(cand[k], call.artist))
        /\ \A k \in DOMAIN cand :
             (/\ C2_TitleScore(cand[k], call.title) = 100
              /\ C2_ArtistScore(cand[k], call.artist) < call.score_cut)
               => ~\E i \in DOMAIN ret : ret[i].item = cand[k].name

\* a scan with one hit and one rejected entry whose title score is 100 and
\* whose artist score is under the threshold
C2_Witness ==
  /\ ScanDone("scan_files") /\ call.title # <<>> /\ call.artist # <<>>
  /\ ret # <<>>
  /\ \E f \in Range(rglob(call.basepath)) :
       /\ C2_TitleScore(f, call.title) = 100
       /\ C2_ArtistScore(f, call.artist) < call.score_cut
       /\ \A i \in DOMAIN ret : ret[i].item # f.name

\* ---------------------------------------------------------------------- C3
C3_DbArtists(c) ==
  LET toks == split_artists(norm(IF c.Artist = NoArtist THEN <<>> ELSE c.Artist.Name))
  IN  IF toks = <<>> THEN { <<>> } ELSE Range(toks)

C3_ArtistPairs(c, artist) == Range(split_artists(artist)) \X C3_DbArtists(c)

\* the mode-dependent score of the claim
C3_Score(c, title, artist) ==
  IF title # <<>> /\ artist # <<>>
  THEN SetMax({token_set_ratio(title \o <<":", ":">> \o p[1],
                               norm(c.Title) \o <<":", ":">> \o p[2]) :
                 p \in C3_ArtistPairs(c, artist)})
  ELSE IF title # <<>> THEN token_set_ratio(title, norm(c.Title))
  ELSE SetMax({token_set_ratio(p[1], p[2]) : p \in C3_ArtistPairs(c, artist)})

\* the label of the claim, from the record's original fields
C3_Label(c) ==
  (IF c.Artist = NoArtist THEN <<>> ELSE c.Artist.Name) \o <<" ", "-", " ">> \o c.Title

\* C3: for a query with a title or an artist, a record is in the output iff
\* its mode-dependent score is at least the threshold, it is there once, with
\* that score, under the label made of its original artist and title.
C3_RecordsAtOrAboveThreshold ==
  (ScanDone("scan_rekordbox") /\ (call.title # <<>> \/ call.artist # <<>>)) =>
    /\ \A c \in Range(call.contents) :
         (\E i \in DOMAIN ret : ret[i].item = C3_Label(c))
           <=> C3_Score(c, call.title, call.artist) >= call.score_cut
    /\ \A i \in DOMAIN ret :
         \E c \in Range(call.contents) :
           /\ ret[i].item = C3_Label(c)
           /\ ret[i].score = C3_Score(c, call.title, call.artist)
    /\ \A i, j \in DOMAIN ret : ret[i].item = ret[j].item => i = j

\* a record whose score equals a positive threshold is returned, under a
\* label that its normalized fields would not give
C3_Witness ==
  /\ ScanDone("scan_rekordbox")
  /\ call.score_cut > 0
  /\ \E c \in Range(call.contents) :
       /\ C3_Score(c, call.title, call.artist) = call.score_cut
       /\ \E i \in DOMAIN ret : ret[i].item = C3_Label(c)
       /\ C3_Label(c) # str_lower(C3_Label(c))

\* ---------------------------------------------------------------------- C4
\* C4: a scanner called with an empty title and an empty artist returns no
\* hit, whatever the corpus and the threshold.
C4_EmptyQueryNoHits ==
  (cpc = "done" /\ call.title = <<>> /\ call.artist = <<>>) => ret = <<>>

\* ---------------------------------------------------------------------- C5
\* the position at which the scanner met the entry a hit stands for
C5_Encounter(h) ==
  IF call.fn = "scan_rekordbox"
  THEN CHOOSE k \in DOMAIN call.contents : C3_Label(call.contents[k]) = h.item
  ELSE LET cand == rglob(call.basepath)
       IN  CHOOSE k \in DOMAIN cand :
             cand[k].name = h.item /\ resolve(cand[k]) = h.path

\* C5: a scanner's hits are in non-increasing order of score, and hits of
\* equal score are in the order in which the scanner met them.
C5_SortedStable ==
  cpc = "done" =>
    \A i, j \in DOMAIN ret :
      i < j => /\ ret[i].score >= ret[j].score
               /\ ret[i].score = ret[j].score
                    => C5_Encounter(ret[i]) < C5_Encounter(ret[j])

\* three hits or more, two of them of equal score, two of them moved by the sort
C5_Witness ==
  /\ cpc = "done"
  /\ \E i, j \in DOMAIN ret : i < j /\ ret[i].score = ret[j].score
  /\ \E i, j \in DOMAIN ret : i < j /\ C5_Encounter(ret[i]) > C5_Encounter(ret[j])

\* ---------------------------------------------------------------------- C6
\* C6: the filesystem scanner returns no two hits with the same canonical
\* path.
C6_OneHitPerCanonicalPath ==
  ScanDone("scan_files") =>
    \A i, j \in DOMAIN ret : ret[i].path = ret[j].path => i = j

\* two entries that resolve to one file and are both accepted, and one hit
C6_Witness ==
  /\ ScanDone("scan_files")
  /\ Len(ret) = 1
  /\ \E f, g \in Range(rglob(call.basepath)) :
       /\ f # g
       /\ resolve(f) = resolve(g)
       /\ FsJudge(f, call.title, call.artist, call.score_cut).ok
       /\ FsJudge(g, call.title, call.artist, call.score_cut).ok

\* ---------------------------------------------------------------------- C7
\* C7: norm is idempotent: norm(norm(s)) = norm(s).
C7_NormIdempotent == npc = "twice" => out2 = out1

\* ---------------------------------------------------------------------- C8
BadRoot == dir.kind \in {"missing", "file"}

\* C8: with a root that does not exist or is no directory, no query gets an
\* empty filesystem hit list, nor is it classified as unmatched.
C8_BadRootNeverEmptyList ==
  BadRoot => \A k \in DOMAIN results :
               /\ results[k].fs_items # <<>>
               /\ BucketOf(results[k]) # "unmatched"

\* ---------------------------------------------------------------------- C9
\* C9: the entries the filesystem scanner evaluates are exactly the regular
\* files under the root, and no hit stands for a directory.
C9_CandidatesAreTheRegularFiles ==
  (ScanDone("scan_files") /\ call.basepath.kind = "dir") =>
    /\ Range(rglob(call.basepath))
         = {f \in Range(call.basepath.entries) : ~f.isdir}
    /\ \A i \in DOMAIN ret :
         ~\E f \in Range(call.basepath.entries) : f.isdir /\ f.name = ret[i].item

\* --------------------------------------------------------------------- C10
\* C10: for a query with a non-empty artist and every record, the database
\* scanner's two artist token lists are non-empty, so that a pair is scored: a
\* string without any token gives the list holding one empty string.
C10_ArtistTokenListsNonEmpty ==
  (ScanDone("scan_rekordbox") /\ call.artist # <<>>) =>
    \A c \in Range(call.contents) :
      LET a_val == norm(RawArtist(c))
      IN  /\ InputArtists(call.artist) # <<>>
          /\ split_artists(call.artist) = <<>> => InputArtists(call.artist) = << <<>> >>
          /\ DbArtists(a_val) # <<>>
          /\ split_artists(a_val) = <<>> => DbArtists(a_val) = << <<>> >>
          /\ Pairs(InputArtists(call.artist), DbArtists(a_val)) # <<>>

=============================================================================
